---- MODULE Spec2Model ----
(***************************************************************************)
(* Model of the stand-alone routines of the algorithms repository.  The    *)
(* repository has no shared state: every routine is run on its own input.  *)
(* Init picks one routine and one input for it; the actions are the steps  *)
(* of that routine.  pc names the routine and the position inside it.      *)
(***************************************************************************)
EXTENDS Integers, Sequences, FiniteSets, TLC

VARIABLES
    pc,
    \* minTimeToVisitAllPoints
    points, i, totalTime,
    \* spiralMatrixc
    n, matrix, top, bottom, left, right, current, idx,
    \* orangesRotting
    grid, queue, freshCount, minutes, ret,
    \* estimate_transition_matrix
    states, num_states, count_matrix, pos, transition_matrix,
    \* assign_states
    Return, State,
    \* normalize_type
    param_type, normalized,
    \* the openai_data build loop
    data, row_idx, openai_data,
    \* HiddenMarkovModel
    transition_probs, emission_probs, initial_probs, randomized,
    observations, n_iter, iters_done, train_calls, alpha, beta,
    \* BacktestEngine
    df, strategy_transition_matrix, state_mean_returns, equity_curve,
    capital, position, step, run_result, run_calls

pointsVars == <<points, i, totalTime>>
spiralVars == <<n, matrix, top, bottom, left, right, current, idx>>
orangesVars == <<grid, queue, freshCount, minutes, ret>>
markovVars == <<states, num_states, count_matrix, pos, transition_matrix>>
assignVars == <<Return, State>>
normalizeVars == <<param_type, normalized>>
xlamVars == <<data, row_idx, openai_data>>
hmmVars ==
    <<transition_probs, emission_probs, initial_probs, randomized,
      observations, n_iter, iters_done, train_calls, alpha, beta>>
backtestVars ==
    <<df, strategy_transition_matrix, state_mean_returns, equity_curve,
      capital, position, step, run_result, run_calls>>
\* the variables of the routines other than the running one
otherPointsVars ==
    <<spiralVars, orangesVars, markovVars, assignVars,
      normalizeVars, xlamVars, hmmVars, backtestVars>>
otherSpiralVars ==
    <<pointsVars, orangesVars, markovVars, assignVars,
      normalizeVars, xlamVars, hmmVars, backtestVars>>
otherOrangesVars ==
    <<pointsVars, spiralVars, markovVars, assignVars,
      normalizeVars, xlamVars, hmmVars, backtestVars>>
otherMarkovVars ==
    <<pointsVars, spiralVars, orangesVars, assignVars,
      normalizeVars, xlamVars, hmmVars, backtestVars>>
otherAssignVars ==
    <<pointsVars, spiralVars, orangesVars, markovVars,
      normalizeVars, xlamVars, hmmVars, backtestVars>>
otherNormalizeVars ==
    <<pointsVars, spiralVars, orangesVars, markovVars,
      assignVars, xlamVars, hmmVars, backtestVars>>
otherXlamVars ==
    <<pointsVars, spiralVars, orangesVars, markovVars,
      assignVars, normalizeVars, hmmVars, backtestVars>>
otherHmmVars ==
    <<pointsVars, spiralVars, orangesVars, markovVars,
      assignVars, normalizeVars, xlamVars, backtestVars>>
otherBacktestVars ==
    <<pointsVars, spiralVars, orangesVars, markovVars,
      assignVars, normalizeVars, xlamVars, hmmVars>>

vars == <<pc, pointsVars, spiralVars, orangesVars, markovVars, assignVars,
          normalizeVars, xlamVars, hmmVars, backtestVars>>

\* ---------------------------------------------------------------- bounds
MaxPoints == 2
MaxCoord == 1
MaxN == 5
MaxRows == 2
MaxCols == 2
MaxStatesLen == 3
MaxNumStates == 2
MaxReturns == 2
MaxData == 2
MaxCalls == 2
MaxObs == 3
MaxTrainObs == 2
MaxIter == 1
MaxTrainCalls == 2
MaxDen == 3
MaxDfRows == 3
MaxRuns == 2

\* ---------------------------------------------------------------- helpers
Abs(x) == IF x < 0 THEN -x ELSE x

Max(a, b) == IF a >= b THEN a ELSE b

Min(a, b) == IF a <= b THEN a ELSE b

SeqsUpTo(S, k) == UNION {[1..m -> S] : m \in 0..k}

\* ------------------------------------------------ minTimeToVisitAllPoints
\* the example call of the specification's testable properties
ExamplePoints == << <<1, 1>>, <<3, 4>>, <<-1, 0>> >>

Coords == (-MaxCoord)..MaxCoord

PointInputs == SeqsUpTo(Coords \X Coords, MaxPoints) \cup {ExamplePoints}

PointsIdle == points = <<>> /\ i = 0 /\ totalTime = 0

InitPoints ==
    /\ pc = "visit_loop"
    /\ points \in PointInputs
    /\ i = 1
    /\ totalTime = 0

\* the time one loop iteration adds for the leg from p1 to p2
LegTimeManhattan(p1, p2) == Abs(p2[1] - p1[1]) + Abs(p2[2] - p1[2])

LegTime(p1, p2) ==
    LET dx == Abs(p2[1] - p1[1])
        dy == Abs(p2[2] - p1[2])
    IN  Max(dx, dy)

\* one iteration of the for loop (the source's points[i-1], points[i] are
\* 0-based; the sequence here is 1-based)
VisitStep ==
    /\ pc = "visit_loop"
    /\ i < Len(points)
    /\ totalTime' = totalTime + LegTime(points[i], points[i + 1])
    /\ i' = i + 1
    /\ UNCHANGED <<pc, points>>
    /\ UNCHANGED otherPointsVars

VisitReturn ==
    /\ pc = "visit_loop"
    /\ ~(i < Len(points))
    /\ pc' = "visit_done"
    /\ UNCHANGED pointsVars
    /\ UNCHANGED otherPointsVars

\* ---------------------------------------------------------- spiralMatrixc
SpiralIdle ==
    /\ n = 0 /\ matrix = <<>> /\ top = 0 /\ bottom = 0
    /\ left = 0 /\ right = 0 /\ current = 0 /\ idx = 0

InitSpiral ==
    /\ pc = "spiral_while"
    /\ n \in 1..MaxN
    /\ matrix = [r \in 0..(n - 1) |-> [c \in 0..(n - 1) |-> 0]]
    /\ top = 0
    /\ bottom = n - 1
    /\ left = 0
    /\ right = n - 1
    /\ current = 1
    /\ idx = 0

max == n * n

PutTransposed(r, c) == matrix' = [matrix EXCEPT ![c][r] = current]

Put(r, c) == matrix' = [matrix EXCEPT ![r][c] = current]

SpiralWhile ==
    /\ pc = "spiral_while"
    /\ IF current <= max
         THEN pc' = "fill_top" /\ idx' = left
         ELSE pc' = "spiral_done" /\ idx' = idx
    /\ UNCHANGED <<n, matrix, top, bottom, left, right, current>>
    /\ UNCHANGED otherSpiralVars

FillTop ==
    /\ pc = "fill_top"
    /\ idx <= right /\ current <= max
    /\ Put(top, idx)
    /\ current' = current + 1
    /\ idx' = idx + 1
    /\ UNCHANGED <<pc, n, top, bottom, left, right>>
    /\ UNCHANGED otherSpiralVars

EndTopNoAdvance ==
    /\ pc = "fill_top"
    /\ ~(idx <= right /\ current <= max)
    /\ idx' = top
    /\ pc' = "fill_right"
    /\ UNCHANGED <<n, matrix, top, bottom, left, right, current>>
    /\ UNCHANGED otherSpiralVars

EndTop ==
    /\ pc = "fill_top"
    /\ ~(idx <= right /\ current <= max)
    /\ top' = top + 1
    /\ idx' = top + 1
    /\ pc' = "fill_right"
    /\ UNCHANGED <<n, matrix, bottom, left, right, current>>
    /\ UNCHANGED otherSpiralVars

FillRight ==
    /\ pc = "fill_right"
    /\ idx <= bottom /\ current <= max
    /\ Put(idx, right)
    /\ current' = current + 1
    /\ idx' = idx + 1
    /\ UNCHANGED <<pc, n, top, bottom, left, right>>
    /\ UNCHANGED otherSpiralVars

EndRight ==
    /\ pc = "fill_right"
    /\ ~(idx <= bottom /\ current <= max)
    /\ right' = right - 1
    /\ idx' = right - 1
    /\ pc' = "fill_bottom"
    /\ UNCHANGED <<n, matrix, top, bottom, left, current>>
    /\ UNCHANGED otherSpiralVars

FillBottom ==
    /\ pc = "fill_bottom"
    /\ idx >= left /\ current <= max
    /\ Put(bottom, idx)
    /\ current' = current + 1
    /\ idx' = idx - 1
    /\ UNCHANGED <<pc, n, top, bottom, left, right>>
    /\ UNCHANGED otherSpiralVars

EndBottom ==
    /\ pc = "fill_bottom"
    /\ ~(idx >= left /\ current <= max)
    /\ bottom' = bottom - 1
    /\ idx' = bottom - 1
    /\ pc' = "fill_left"
    /\ UNCHANGED <<n, matrix, top, left, right, current>>
    /\ UNCHANGED otherSpiralVars

FillLeft ==
    /\ pc = "fill_left"
    /\ idx >= top /\ current <= max
    /\ Put(idx, left)
    /\ current' = current + 1
    /\ idx' = idx - 1
    /\ UNCHANGED <<pc, n, top, bottom, left, right>>
    /\ UNCHANGED otherSpiralVars

EndLeft ==
    /\ pc = "fill_left"
    /\ ~(idx >= top /\ current <= max)
    /\ left' = left + 1
    /\ pc' = "spiral_while"
    /\ UNCHANGED <<n, matrix, top, bottom, right, current, idx>>
    /\ UNCHANGED otherSpiralVars

\* --------------------------------------------------------- orangesRotting
\* a JavaScript return value: a number, or undefined when the function body
\* ends without a return statement
Number(v) == [kind |-> "number", value |-> v]

Undefined == [kind |-> "undefined", value |-> 0]

NotReturned == [kind |-> "none", value |-> 0]

GridOf(rs) ==
    [r \in 0..(Len(rs) - 1) |-> [c \in 0..(Len(rs[r + 1]) - 1) |-> rs[r + 1][c + 1]]]

\* the grid of the example usage
ExampleGrid == GridOf(<< <<2, 1, 1>>, <<1, 1, 0>>, <<0, 1, 1>> >>)

Grids(m, k) == [0..(m - 1) -> [0..(k - 1) -> 0..2]]

GridInputs ==
    (UNION {Grids(m, k) : m \in 0..MaxRows, k \in 0..MaxCols}) \cup {ExampleGrid}

rows == Cardinality(DOMAIN grid)

cols == Cardinality(DOMAIN grid[0])

OrangesIdle ==
    /\ grid = <<>> /\ queue = <<>> /\ freshCount = 0 /\ minutes = 0
    /\ ret = NotReturned

InitOranges ==
    /\ pc = "oranges_entry"
    /\ grid \in GridInputs
    /\ queue = <<>>
    /\ freshCount = 0
    /\ minutes = 0
    /\ ret = NotReturned

\* if (!grid || grid.length === 0) return -1
OrangesEmptyGuard ==
    /\ pc = "oranges_entry"
    /\ rows = 0
    /\ ret' = Number(-1)
    /\ pc' = "oranges_done"
    /\ UNCHANGED <<grid, queue, freshCount, minutes>>
    /\ UNCHANGED otherOrangesVars

\* the rotten cells [r, c, 0] among the cells numbered k.. in row-major order
RECURSIVE RottenFrom(_)
RottenFrom(k) ==
    IF k >= rows * cols THEN <<>>
    ELSE LET r == k \div cols
             c == k % cols
         IN  (IF grid[r][c] = 2 THEN << <<r, c, 0>> >> ELSE <<>>)
                 \o RottenFrom(k + 1)

FreshCountNonEmpty ==
    Cardinality({rc \in (0..(rows - 1)) \X (0..(cols - 1)) : grid[rc[1]][rc[2]] # 0})

FreshCount ==
    Cardinality({rc \in (0..(rows - 1)) \X (0..(cols - 1)) : grid[rc[1]][rc[2]] = 1})

\* step 1 (the two nested loops) and the early return that follows them
OrangesGather ==
    /\ pc = "oranges_entry"
    /\ rows # 0
    /\ queue' = RottenFrom(0)
    /\ freshCount' = FreshCount
    /\ IF FreshCount = 0
         THEN ret' = Number(0) /\ pc' = "oranges_done"
         ELSE ret' = ret /\ pc' = "oranges_bfs"
    /\ UNCHANGED <<grid, minutes>>
    /\ UNCHANGED otherOrangesVars

directions == << <<1, 0>>, <<-1, 0>>, <<0, 1>>, <<0, -1>> >>

\* one iteration of the while loop: the head of the queue is taken off and
\* the loop over the directions computes newRow and newCol and does nothing
\* with them
OrangesShift ==
    /\ pc = "oranges_bfs"
    /\ Len(queue) > 0
    /\ LET row == Head(queue)[1]
           col == Head(queue)[2]
           neighbours == {<<row + directions[d][1], col + directions[d][2]>> :
                             d \in 1..Len(directions)}
       IN  /\ Cardinality(neighbours) = 4
           /\ queue' = Tail(queue)
    /\ UNCHANGED <<pc, grid, freshCount, minutes, ret>>
    /\ UNCHANGED otherOrangesVars

\* the while loop ends and the function body ends with it: no return
OrangesFallOff ==
    /\ pc = "oranges_bfs"
    /\ ~(Len(queue) > 0)
    /\ ret' = Undefined
    /\ pc' = "oranges_done"
    /\ UNCHANGED <<grid, queue, freshCount, minutes>>
    /\ UNCHANGED otherOrangesVars

\* --------------------------------------------- estimate_transition_matrix
\* a NumPy float: a finite value num/den, nan or inf
Finite(a, b) == [kind |-> "finite", num |-> a, den |-> b]

NaN == [kind |-> "nan", num |-> 0, den |-> 1]

Inf == [kind |-> "inf", num |-> 0, den |-> 1]

\* a / b on floats holding the counts a >= 0 and b >= 0: 0/0 is nan and a
\* positive count over 0 is inf (NumPy warns and goes on)
Divide(a, b) ==
    IF b = 0 THEN (IF a = 0 THEN NaN ELSE Inf) ELSE Finite(a, b)

MarkovIdle ==
    /\ states = <<>> /\ num_states = 0 /\ count_matrix = <<>> /\ pos = 0
    /\ transition_matrix = <<>>

InitMarkov ==
    /\ pc = "markov_count"
    /\ num_states \in 1..MaxNumStates
    /\ states \in SeqsUpTo(0..(num_states - 1), MaxStatesLen)
    /\ count_matrix = [a \in 0..(num_states - 1) |-> [b \in 0..(num_states - 1) |-> 0]]
    /\ pos = 1
    /\ transition_matrix = <<>>

\* one iteration of the loop over zip(states[:-1], states[1:])
CountTransition ==
    /\ pc = "markov_count"
    /\ pos < Len(states)
    /\ LET current_state == states[pos]
           next_state == states[pos + 1]
       IN  count_matrix' = [count_matrix EXCEPT ![current_state][next_state] = @ + 1]
    /\ pos' = pos + 1
    /\ UNCHANGED <<pc, states, num_states, transition_matrix>>
    /\ UNCHANGED otherMarkovVars

RECURSIVE SumUpTo(_, _)
SumUpTo(f, m) == IF m < 0 THEN 0 ELSE f[m] + SumUpTo(f, m - 1)

\* matrix.sum(axis=1), the division by row_sums[:, None] and the return
NormalizeRows ==
    /\ pc = "markov_count"
    /\ ~(pos < Len(states))
    /\ LET row_sums == [a \in 0..(num_states - 1) |->
                           SumUpTo(count_matrix[a], num_states - 1)]
       IN  transition_matrix' =
               [a \in 0..(num_states - 1) |-> [b \in 0..(num_states - 1) |->
                   Divide(count_matrix[a][b], row_sums[a])]]
    /\ pc' = "markov_done"
    /\ UNCHANGED <<states, num_states, count_matrix, pos>>
    /\ UNCHANGED otherMarkovVars

\* ------------------------------------------------------------ assign_states
\* returns are held in basis points: 1% is 100
thresholds == <<-100, 0, 100>>

ReturnValues == {-150, -100, -50, 0, 50, 100, 150}

\* a bin edge: a number, -inf or +inf
Edge(v) == [inf |-> 0, v |-> v]

NegInf == [inf |-> -1, v |-> 0]

PosInf == [inf |-> 1, v |-> 0]

EdgeLess(a, b) == a.inf < b.inf \/ (a.inf = 0 /\ b.inf = 0 /\ a.v < b.v)

bins == <<NegInf>> \o [j \in 1..Len(thresholds) |-> Edge(thresholds[j])] \o <<PosInf>>

\* pd.cut(x, bins, labels=False) with its default right=True: the index of
\* the bin (bins[j], bins[j+1]] that holds x
Cut(x) ==
    CHOOSE j \in 0..(Len(bins) - 2) :
        /\ EdgeLess(bins[j + 1], Edge(x))
        /\ ~EdgeLess(bins[j + 2], Edge(x))

AssignIdle == Return = <<>> /\ State = <<>>

InitAssign ==
    /\ pc = "assign_entry"
    /\ Return \in SeqsUpTo(ReturnValues, MaxReturns)
    /\ State = <<>>

AssignStates ==
    /\ pc = "assign_entry"
    /\ State' = [j \in 1..Len(Return) |-> Cut(Return[j])]
    /\ pc' = "assign_done"
    /\ UNCHANGED Return
    /\ UNCHANGED otherAssignVars

\* ----------------------------------------------------------- normalize_type
\* a Python str is a sequence of one-character strings
IsSpace(ch) == ch \in {" ", "\t", "\n"}

RECURSIVE LStrip(_)
LStrip(s) == IF s # <<>> /\ IsSpace(Head(s)) THEN LStrip(Tail(s)) ELSE s

RECURSIVE RStrip(_)
RStrip(s) ==
    IF s # <<>> /\ IsSpace(s[Len(s)]) THEN RStrip(SubSeq(s, 1, Len(s) - 1)) ELSE s

Strip(s) == RStrip(LStrip(s))

\* s.split(sep)[0]
RECURSIVE SplitFirst(_, _)
SplitFirst(s, sep) ==
    IF s = <<>> \/ Head(s) = sep THEN <<>>
    ELSE <<Head(s)>> \o SplitFirst(Tail(s), sep)

StartsWith(s, prefix) ==
    Len(s) >= Len(prefix) /\ SubSeq(s, 1, Len(prefix)) = prefix

\* sub in s
Contains(s, sub) ==
    \E j \in 1..(Len(s) - Len(sub) + 1) : SubSeq(s, j, j + Len(sub) - 1) = sub

\* s.replace(old, new), old not empty
RECURSIVE Replace(_, _, _)
Replace(s, old, new) ==
    IF s = <<>> THEN <<>>
    ELSE IF StartsWith(s, old)
           THEN new \o Replace(SubSeq(s, Len(old) + 1, Len(s)), old, new)
    ELSE <<Head(s)>> \o Replace(Tail(s), old, new)

type_mapping ==
    { <<<<"s", "t", "r">>, "string">>,
      <<<<"i", "n", "t">>, "integer">>,
      <<<<"f", "l", "o", "a", "t">>, "number">>,
      <<<<"b", "o", "o", "l">>, "boolean">>,
      <<<<"l", "i", "s", "t">>, "array">>,
      <<<<"d", "i", "c", "t">>, "object">>,
      <<<<"L", "i", "s", "t">>, "array">>,
      <<<<"D", "i", "c", "t">>, "object">>,
      <<<<"s", "e", "t">>, "array">>,
      <<<<"S", "e", "t">>, "array">> }

\* type_mapping.get(s, "string")
TypeMappingGet(s) ==
    IF \E e \in type_mapping : e[1] = s
      THEN (CHOOSE e \in type_mapping : e[1] = s)[2]
      ELSE "string"

GenericPrefixes == { <<"C", "a", "l", "l", "a", "b", "l", "e">>, <<"T", "u", "p", "l", "e">>, <<"L", "i", "s", "t", "[">>, <<"S", "e", "t">> }

\* the return of the branch for generic types
GenericTypeAlwaysArray(s) == "array"

GenericType(s) ==
    IF Contains(s, <<"T", "u", "p", "l", "e">>) \/ Contains(s, <<"L", "i", "s", "t">>) \/ Contains(s, <<"S", "e", "t">>)
      THEN "array" ELSE "string"

normalize_type(arg) ==
    LET first == SplitFirst(Strip(arg), ",")
        cleaned == Strip(Replace(first, <<",", " ", "o", "p", "t", "i", "o", "n", "a", "l">>, <<>>))
    IN  IF StartsWith(first, <<"d", "e", "f", "a", "u", "l", "t", "=">>) THEN "string"
        ELSE IF \E prefix \in GenericPrefixes : StartsWith(cleaned, prefix)
               THEN GenericType(cleaned)
        ELSE TypeMappingGet(cleaned)

\* the rows of the type transformation table
DocumentedTypes ==
    { <<<<"s", "t", "r">>, "string">>,
      <<<<"i", "n", "t">>, "integer">>,
      <<<<"f", "l", "o", "a", "t">>, "number">>,
      <<<<"b", "o", "o", "l">>, "boolean">>,
      <<<<"l", "i", "s", "t">>, "array">>,
      <<<<"L", "i", "s", "t">>, "array">>,
      <<<<"d", "i", "c", "t">>, "object">>,
      <<<<"D", "i", "c", "t">>, "object">>,
      <<<<"S", "e", "t">>, "array">>,
      <<<<"s", "e", "t">>, "array">>,
      <<<<"C", "a", "l", "l", "a", "b", "l", "e", "[", "[", "i", "n", "t", "]", ",", " ", "s", "t", "r", "]">>, "string">>,
      <<<<"T", "u", "p", "l", "e", "[", "i", "n", "t", ",", " ", "s", "t", "r", "]">>, "array">>,
      <<<<"L", "i", "s", "t", "[", "s", "t", "r", "]", ",", " ", "d", "e", "f", "a", "u", "l", "t", "=", "'", "f", "o", "o", "'">>, "array">>,
      <<<<"d", "e", "f", "a", "u", "l", "t", "=", "'", "f", "o", "o", "'">>, "string">>,
      <<<<"s", "t", "r", ",", " ", "o", "p", "t", "i", "o", "n", "a", "l">>, "string">>,
      <<<<"U", "n", "k", "n", "o", "w", "n", "T", "y", "p", "e">>, "string">> }

OtherTypes ==
    { <<>>,
      <<" ", "s", "t", "r", " ">>,
      <<"L", "i", "s", "t", "[", "i", "n", "t", "]">>,
      <<"D", "i", "c", "t", "[", "s", "t", "r", ",", " ", "i", "n", "t", "]">>,
      <<"C", "a", "l", "l", "a", "b", "l", "e", "[", "[", "L", "i", "s", "t", "[", "i", "n", "t", "]", "]", ",", " ", "s", "t", "r", "]">>,
      <<"S", "e", "t", "[", "i", "n", "t", "]">>,
      <<"t", "u", "p", "l", "e">>,
      <<"O", "p", "t", "i", "o", "n", "a", "l", "[", "i", "n", "t", "]">>,
      <<" ", " ", "b", "o", "o", "l", ",", " ", "o", "p", "t", "i", "o", "n", "a", "l">>,
      <<"i", "n", "t", ",", " ", "d", "e", "f", "a", "u", "l", "t", "=", "0">> }

NormalizeIdle == param_type = <<>> /\ normalized = ""

InitNormalize ==
    /\ pc = "normalize_entry"
    /\ param_type \in {e[1] : e \in DocumentedTypes} \cup OtherTypes
    /\ normalized = ""

NormalizeType ==
    /\ pc = "normalize_entry"
    /\ normalized' = normalize_type(param_type)
    /\ pc' = "normalize_done"
    /\ UNCHANGED param_type
    /\ UNCHANGED otherNormalizeVars

\* ------------------------------------------------- the openai_data build loop
\* a Python value that may be None
None == [isNone |-> TRUE, value |-> <<>>]

Some(v) == [isNone |-> FALSE, value |-> v]

\* parsed tool calls (json.loads(row["answers"])) are lists of call objects
ToolCalls == {[name |-> "multiply"], [name |-> "search"]}

\* parsed tool schemas: "parameters" is a dict of parameter types or not a
\* dict at all
ToolSchemas ==
    << [name |-> "multiply", parameters |-> Some(<<<<"f", "l", "o", "a", "t">>, <<"b", "o", "o", "l", ",", " ", "o", "p", "t", "i", "o", "n", "a", "l">>>>)],
       [name |-> "search", parameters |-> None] >>

Rows ==
    [query : {"q"}, answers : SeqsUpTo(ToolCalls, MaxCalls),
     tools : {<<>>, <<ToolSchemas[1], ToolSchemas[2]>>}]

ToolCallsAnyLength(tool_calls) ==
    IF Len(tool_calls) >= 1
      THEN Some(<<[type |-> "function", function |-> tool_calls[1]]>>)
      ELSE None

xlam_tool_calls_to_openai(tool_calls) ==
    IF Len(tool_calls) = 1
      THEN Some(<<[type |-> "function", function |-> tool_calls[1]]>>)
      ELSE None

xlam_messages_to_openai(row) ==
    << [role |-> "user", content |-> row.query],
       [role |-> "assistant", content |-> "",
        tool_calls |-> xlam_tool_calls_to_openai(row.answers)] >>

\* the tools whose parameters are a dict, each wrapped as a function schema
\* with its parameter types normalized (names, descriptions and defaults of
\* the parameters are left out)
RECURSIVE xlam_tools_to_openai(_)
xlam_tools_to_openai(tools) ==
    IF tools = <<>> THEN <<>>
    ELSE LET tool == Head(tools)
             rest == xlam_tools_to_openai(Tail(tools))
         IN  IF tool.parameters.isNone THEN rest
             ELSE << [type |-> "function",
                      function |->
                          [name |-> tool.name,
                           parameters |->
                               [type |-> "object",
                                properties |->
                                    [j \in 1..Len(tool.parameters.value) |->
                                        normalize_type(tool.parameters.value[j])]]]]
                  >> \o rest

XlamIdle == data = <<>> /\ row_idx = 0 /\ openai_data = <<>>

InitXlam ==
    /\ pc = "xlam_loop"
    /\ data \in SeqsUpTo(Rows, MaxData)
    /\ row_idx = 1
    /\ openai_data = <<>>

\* one iteration of "for row in tqdm(data)"
BuildStep ==
    /\ pc = "xlam_loop"
    /\ row_idx <= Len(data)
    /\ LET row == data[row_idx]
           messages == xlam_messages_to_openai(row)
           tools == xlam_tools_to_openai(row.tools)
       IN  IF messages[2].tool_calls.isNone
             THEN openai_data' = openai_data
             ELSE openai_data' =
                      Append(openai_data, [messages |-> messages, tools |-> tools])
    /\ row_idx' = row_idx + 1
    /\ UNCHANGED <<pc, data>>
    /\ UNCHANGED otherXlamVars

BuildDone ==
    /\ pc = "xlam_loop"
    /\ ~(row_idx <= Len(data))
    /\ pc' = "xlam_done"
    /\ UNCHANGED xlamVars
    /\ UNCHANGED otherXlamVars

\* -------------------------------------------------------- HiddenMarkovModel
\* exact arithmetic on NumPy floats kept in lowest terms; the values here
\* are never negative infinity
RECURSIVE Gcd(_, _)
Gcd(a, b) == IF b = 0 THEN a ELSE Gcd(b, a % b)

\* a / b for integers a and b # 0, in lowest terms with a positive denominator
Rat(a, b) ==
    LET s == IF b < 0 THEN -1 ELSE 1
        g == Gcd(Abs(a), Abs(b))
    IN  Finite((s * a) \div g, (s * b) \div g)

Zero == Finite(0, 1)

One == Finite(1, 1)

IsZero(x) == x.kind = "finite" /\ x.num = 0

FAdd(x, y) ==
    IF x.kind = "nan" \/ y.kind = "nan" THEN NaN
    ELSE IF x.kind = "inf" \/ y.kind = "inf" THEN Inf
    ELSE LET g == Gcd(x.den, y.den)
         IN  Rat(x.num * (y.den \div g) + y.num * (x.den \div g),
                 (x.den \div g) * y.den)

FMul(x, y) ==
    IF x.kind = "nan" \/ y.kind = "nan" THEN NaN
    ELSE IF x.kind = "inf" \/ y.kind = "inf"
           THEN (IF IsZero(x) \/ IsZero(y) THEN NaN ELSE Inf)
    ELSE Rat(x.num * y.num, x.den * y.den)

FDiv(x, y) ==
    IF x.kind = "nan" \/ y.kind = "nan" THEN NaN
    ELSE IF y.kind = "inf" THEN (IF x.kind = "inf" THEN NaN ELSE Zero)
    ELSE IF x.kind = "inf" THEN Inf
    ELSE IF y.num = 0 THEN (IF x.num = 0 THEN NaN ELSE Inf)
    ELSE Rat(x.num * y.den, x.den * y.num)

\* np.sum of the entries f[x], x in S
RECURSIVE FSum(_, _)
FSum(f, S) ==
    IF S = {} THEN Zero
    ELSE LET x == CHOOSE x \in S : TRUE
         IN  FAdd(f[x], FSum(f, S \ {x}))

\* the model built by HiddenMarkovModel(2, 2)
HiddenStates == 0..1

ObservationBins == 0..1

num_hidden_states == Cardinality(HiddenStates)

num_observation_bins == Cardinality(ObservationBins)

\* an array that no call has returned yet
NoArray == <<>>

\* rows np.random.dirichlet can draw over the index set S: positive, sum 1
SampleRows(S) ==
    LET total == FSum([x \in S |-> Finite(x + 1, 1)], S)
    IN  { [x \in S |-> Rat(1, Cardinality(S))],
          [x \in S |-> FDiv(Finite(x + 1, 1), total)] }

\* observation arrays: source index t is index t + 1 here
ObsInputs(m) == UNION {[1..len -> ObservationBins] : len \in 1..m}

HmmIdle ==
    /\ transition_probs = <<>> /\ emission_probs = <<>> /\ initial_probs = <<>>
    /\ randomized = FALSE /\ observations = <<>> /\ n_iter = 0
    /\ iters_done = 0 /\ train_calls = 0 /\ alpha = NoArray /\ beta = NoArray

\* __init__
InitHmm ==
    /\ pc = "hmm_ready"
    /\ transition_probs =
           [a \in HiddenStates |-> [b \in HiddenStates |-> Rat(1, num_hidden_states)]]
    /\ emission_probs =
           [a \in HiddenStates |-> [l \in ObservationBins |-> Rat(1, num_observation_bins)]]
    /\ initial_probs = [a \in HiddenStates |-> Rat(1, num_hidden_states)]
    /\ randomized = FALSE
    /\ observations = <<>>
    /\ n_iter = 0
    /\ iters_done = 0
    /\ train_calls = 0
    /\ alpha = NoArray
    /\ beta = NoArray

\* initialize_random, called on the model as constructed
InitializeRandom ==
    /\ pc = "hmm_ready"
    /\ ~randomized /\ train_calls = 0
    /\ transition_probs' \in [HiddenStates -> SampleRows(HiddenStates)]
    /\ emission_probs' \in [HiddenStates -> SampleRows(ObservationBins)]
    /\ initial_probs' \in SampleRows(HiddenStates)
    /\ randomized' = TRUE
    /\ alpha' = NoArray
    /\ beta' = NoArray
    /\ UNCHANGED <<pc, observations, n_iter, iters_done, train_calls>>
    /\ UNCHANGED otherHmmVars

\* the model follows the object while the exact values computed from its
\* parameters fit the integers of the model checker
Representable(x) == x.den <= MaxDen

AllRepresentable ==
    /\ \A a \in HiddenStates : Representable(initial_probs[a])
    /\ \A a \in HiddenStates : \A b \in HiddenStates :
           Representable(transition_probs[a][b])
    /\ \A a \in HiddenStates : \A l \in ObservationBins :
           Representable(emission_probs[a][l])

\* forward: alpha[t] for t in 0..T-1
RECURSIVE AlphaRow(_, _)
AlphaRow(obs, t) ==
    IF t = 0
      THEN [a \in HiddenStates |->
               FMul(initial_probs[a], emission_probs[a][obs[1]])]
      ELSE LET prev == AlphaRow(obs, t - 1)
           IN  [b \in HiddenStates |->
                   FMul(FSum([a \in HiddenStates |->
                                 FMul(prev[a], transition_probs[a][b])],
                             HiddenStates),
                        emission_probs[b][obs[t + 1]])]

forward(obs) == [t \in 0..(Len(obs) - 1) |-> AlphaRow(obs, t)]

\* backward: beta[t] for t in 0..T-1
RECURSIVE BetaRowSameStep(_, _)
BetaRowSameStep(obs, t) ==
    IF t = Len(obs) - 1
      THEN [a \in HiddenStates |-> One]
      ELSE LET nxt == BetaRowSameStep(obs, t + 1)
           IN  [a \in HiddenStates |->
                   FSum([b \in HiddenStates |->
                            FMul(FMul(transition_probs[a][b],
                                      emission_probs[b][obs[t + 1]]),
                                 nxt[b])],
                        HiddenStates)]

RECURSIVE BetaRow(_, _)
BetaRow(obs, t) ==
    IF t = Len(obs) - 1
      THEN [a \in HiddenStates |-> One]
      ELSE LET nxt == BetaRow(obs, t + 1)
           IN  [a \in HiddenStates |->
                   FSum([b \in HiddenStates |->
                            FMul(FMul(transition_probs[a][b],
                                      emission_probs[b][obs[t + 2]]),
                                 nxt[b])],
                        HiddenStates)]

backward(obs) == [t \in 0..(Len(obs) - 1) |-> BetaRow(obs, t)]

\* a call alpha = hmm.forward(obs) on an observation array the caller picks
ForwardCall ==
    /\ pc = "hmm_ready"
    /\ AllRepresentable
    /\ alpha = NoArray
    /\ observations' \in ObsInputs(MaxObs)
    /\ alpha' = forward(observations')
    /\ beta' = NoArray
    /\ UNCHANGED <<pc, transition_probs, emission_probs, initial_probs,
                   randomized, n_iter, iters_done, train_calls>>
    /\ UNCHANGED otherHmmVars

\* the call beta = hmm.backward(obs) that follows it on the same array
BackwardCall ==
    /\ pc = "hmm_ready"
    /\ AllRepresentable
    /\ alpha # NoArray /\ beta = NoArray
    /\ beta' = backward(observations)
    /\ UNCHANGED <<pc, transition_probs, emission_probs, initial_probs,
                   randomized, observations, n_iter, iters_done, train_calls,
                   alpha>>
    /\ UNCHANGED otherHmmVars

\* a call hmm.baum_welch_train(obs, n_iter) enters its loop
BaumWelchStart ==
    /\ pc = "hmm_ready"
    /\ train_calls < MaxTrainCalls
    /\ observations' \in ObsInputs(MaxTrainObs)
    /\ n_iter' \in 1..MaxIter
    /\ iters_done' = 0
    /\ train_calls' = train_calls + 1
    /\ alpha' = NoArray
    /\ beta' = NoArray
    /\ pc' = "hmm_train"
    /\ UNCHANGED <<transition_probs, emission_probs, initial_probs, randomized>>
    /\ UNCHANGED otherHmmVars

\* xi of one iteration: xi[t][a][b] for t in 0..T-2
Xi(obs) ==
    LET al == forward(obs)
        be == backward(obs)
        \* alpha[t, a] * transition_probs[a, b] * emission_probs[b, obs[t+1]]
        \*     * beta[t+1, b]
        numer(t, a, b) ==
            FMul(FMul(FMul(al[t][a], transition_probs[a][b]),
                      emission_probs[b][obs[t + 2]]),
                 be[t + 1][b])
        \* dot(dot(alpha[t, :], transition_probs) * emission_probs[:, obs[t+1]],
        \*     beta[t+1, :])
        denom(t) ==
            FSum([b \in HiddenStates |->
                     FMul(FMul(FSum([a \in HiddenStates |->
                                        FMul(al[t][a], transition_probs[a][b])],
                                    HiddenStates),
                               emission_probs[b][obs[t + 2]]),
                          be[t + 1][b])],
                 HiddenStates)
    IN  [t \in 0..(Len(obs) - 2) |->
            LET d == denom(t)
            IN  [a \in HiddenStates |-> [b \in HiddenStates |->
                    FDiv(numer(t, a, b), d)]]]

\* m / np.sum(m, axis=1, keepdims=True) over the columns C
DivideByRowSum(m, C) ==
    [a \in DOMAIN m |-> [c \in C |-> FDiv(m[a][c], FSum(m[a], C))]]

\* one iteration of the training loop
BaumWelchIteration ==
    /\ pc = "hmm_train"
    /\ iters_done < n_iter
    /\ Len(observations) >= 2
    /\ AllRepresentable
    /\ LET obs == observations
           T == Len(obs)
           xi == Xi(obs)
           gamma == [t \in 0..(T - 2) |-> [a \in HiddenStates |->
                        FSum(xi[t][a], HiddenStates)]]
           summed == [a \in HiddenStates |-> [b \in HiddenStates |->
                         FSum([t \in 0..(T - 2) |-> xi[t][a][b]], 0..(T - 2))]]
           last == [b \in HiddenStates |->
                       FSum([a \in HiddenStates |-> xi[T - 2][a][b]], HiddenStates)]
           stacked == [t \in 0..(T - 1) |-> IF t = T - 1 THEN last ELSE gamma[t]]
           counts == [a \in HiddenStates |-> [l \in ObservationBins |->
                         LET mask == {t \in 0..(T - 1) : obs[t + 1] = l}
                         IN  FSum([t \in 0..(T - 1) |-> stacked[t][a]], mask)]]
       IN  /\ initial_probs' = gamma[0]
           /\ transition_probs' = DivideByRowSum(summed, HiddenStates)
           /\ emission_probs' = DivideByRowSum(counts, ObservationBins)
    /\ iters_done' = iters_done + 1
    /\ UNCHANGED <<pc, randomized, observations, n_iter, train_calls, alpha, beta>>
    /\ UNCHANGED otherHmmVars

\* with a single observation gamma has no row and gamma[0] raises IndexError
BaumWelchIndexError ==
    /\ pc = "hmm_train"
    /\ iters_done < n_iter
    /\ Len(observations) < 2
    /\ pc' = "hmm_error"
    /\ UNCHANGED hmmVars
    /\ UNCHANGED otherHmmVars

BaumWelchReturn ==
    /\ pc = "hmm_train"
    /\ ~(iters_done < n_iter)
    /\ pc' = "hmm_ready"
    /\ UNCHANGED hmmVars
    /\ UNCHANGED otherHmmVars

\* ------------------------- RiskManager, MarkovTradingStrategy, BacktestEngine
\* the observable states df['State'] of the frame
RegimeStates == 0..1

\* the values df['Return'] of the frame, in hundredths
ReturnSteps == {-6, 0, 1}

\* the float r / 100
Hundredths(r) == Rat(r, 100)

FLess(x, y) ==
    x.kind = "finite" /\ y.kind = "finite" /\ x.num * y.den < y.num * x.den

FNeg(x) == IF x.kind = "finite" THEN Finite(-x.num, x.den) ELSE x

\* RiskManager()
max_position == One

vol_target == Rat(2, 100)

stop_loss == Rat(-5, 100)

\* a float that is the square root of the rational a / b
Sqrt(a, b) == [kind |-> "sqrt", num |-> a, den |-> b]

\* a quotient below max_position that is not rational
Inexact == [kind |-> "inexact", num |-> 0, den |-> 1]

RECURSIVE SumOf(_, _)
SumOf(w, m) == IF m = 0 THEN 0 ELSE SumOf(w, m - 1) + w[m]

RECURSIVE SquaresOf(_, _, _)
SquaresOf(w, mean_n, m) ==
    IF m = 0 THEN 0
    ELSE SquaresOf(w, mean_n, m - 1)
             + (Len(w) * w[m] - mean_n) * (Len(w) * w[m] - mean_n)

\* Series.std() of the returns w (in hundredths): the sample deviation with
\* n - 1 in the divisor, nan for fewer than two values
Std(w) ==
    LET len == Len(w)
    IN  IF len < 2 THEN NaN
        ELSE LET v == Rat(SquaresOf(w, SumOf(w, len), len),
                          len * len * (len - 1) * 10000)
             IN  Sqrt(v.num, v.den)

\* min(vol_target / (realized_vol + 1e-8), max_position): min returns its
\* first argument when that is nan; a deviation whose square is under
\* vol_target squared is under vol_target - 1e-8 too (the squares met here
\* have denominators far below 1e8), and then the quotient exceeds 1
size_position(realized_vol) ==
    IF realized_vol.kind = "nan" THEN NaN
    ELSE IF FLess(Finite(realized_vol.num, realized_vol.den),
                  FMul(vol_target, vol_target))
           THEN max_position
    ELSE Inexact

check_stop_loss(pnl) == FLess(pnl, stop_loss)

\* np.argmax: the first index holding the largest entry
predict_next_state(current_state) ==
    LET next_probs == strategy_transition_matrix[current_state]
    IN  CHOOSE b \in RegimeStates :
            /\ \A c \in RegimeStates : ~FLess(next_probs[b], next_probs[c])
            /\ \A c \in RegimeStates :
                   c < b => FLess(next_probs[c], next_probs[b])

decide_action(predicted_state) ==
    IF state_mean_returns[predicted_state] > 0 THEN "BUY"
    ELSE IF state_mean_returns[predicted_state] < 0 THEN "SELL"
    ELSE "HOLD"

\* the returns of the rows lo .. hi - 1 (source indices) of the frame d
ReturnsOf(d, lo, hi) == [m \in 1..(hi - lo) |-> d[lo + m].Return]

\* frames whose realized volatility stays under vol_target in every window
\* the run takes, so that every position size is max_position or nan
DfInputs ==
    { d \in SeqsUpTo([State : RegimeStates, Return : ReturnSteps], MaxDfRows) :
        \A m \in 2..(Len(d) - 1) :
            size_position(Std(ReturnsOf(d, Max(0, m - 21), m))) # Inexact }

BacktestIdle ==
    /\ df = <<>> /\ strategy_transition_matrix = <<>>
    /\ state_mean_returns = <<>> /\ equity_curve = <<>>
    /\ capital = Zero /\ position = Zero /\ step = 0
    /\ run_result = <<>> /\ run_calls = 0

\* BacktestEngine(df, strategy, risk_manager), with no run yet
InitBacktest ==
    /\ pc = "backtest_ready"
    /\ df \in DfInputs
    /\ strategy_transition_matrix \in [RegimeStates -> SampleRows(RegimeStates)]
    /\ state_mean_returns \in [RegimeStates -> {-1, 0, 1}]
    /\ equity_curve = <<>>
    /\ capital = Zero /\ position = Zero /\ step = 0
    /\ run_result = <<>> /\ run_calls = 0

\* run(): capital = 1.0, position = 0.0, and the loop starts at row 1
BacktestRunStart ==
    /\ pc = "backtest_ready"
    /\ run_calls < MaxRuns
    /\ capital' = One
    /\ position' = Zero
    /\ step' = 1
    /\ pc' = "backtest_run"
    /\ UNCHANGED <<df, strategy_transition_matrix, state_mean_returns,
                   equity_curve, run_result, run_calls>>
    /\ UNCHANGED otherBacktestVars

\* the loop body for the row with source index m, entered with the capital
\* cap and the position held: the capital and the position it leaves
\* (live_forecast also infers a hidden state with hmm_model.forward; that
\* call changes nothing and its result does not enter the action)
LoopBody(cap, held, m) ==
    LET current_state == df[m].State
        action == decide_action(predict_next_state(current_state))
        realized_vol == Std(ReturnsOf(df, Max(0, m - 21), m))
        position_size == size_position(realized_vol)
        rate == Hundredths(df[m + 1].Return)
        pnl == IF action = "BUY" THEN FMul(position_size, rate)
               ELSE IF action = "SELL" THEN FMul(FNeg(position_size), rate)
               ELSE FMul(held, rate)
        taken == IF action = "BUY" THEN position_size
                 ELSE IF action = "SELL" THEN FNeg(position_size)
                 ELSE held
        stopped == check_stop_loss(pnl)
    IN  [capital |-> FMul(cap, FAdd(One, IF stopped THEN Zero ELSE pnl)),
         position |-> IF stopped THEN Zero ELSE taken]

\* one pass of the loop, ending with self.equity_curve.append(capital)
BacktestRunStep ==
    /\ pc = "backtest_run"
    /\ step < Len(df)
    /\ LET after == LoopBody(capital, position, step)
       IN  /\ position' = after.position
           /\ capital' = after.capital
           /\ equity_curve' = Append(equity_curve, after.capital)
    /\ step' = step + 1
    /\ UNCHANGED <<pc, df, strategy_transition_matrix, state_mean_returns,
                   run_result, run_calls>>
    /\ UNCHANGED otherBacktestVars

\* the loop is over: return pd.Series(self.equity_curve)
BacktestRunReturn ==
    /\ pc = "backtest_run"
    /\ step >= Len(df)
    /\ run_result' = equity_curve
    /\ run_calls' = run_calls + 1
    /\ pc' = "backtest_ready"
    /\ UNCHANGED <<df, strategy_transition_matrix, state_mean_returns,
                   equity_curve, capital, position, step>>
    /\ UNCHANGED otherBacktestVars

\* ------------------------------------------------------------ the machine
Init ==
    \/ InitPoints /\ SpiralIdle /\ OrangesIdle /\ MarkovIdle /\ AssignIdle
          /\ NormalizeIdle /\ XlamIdle /\ HmmIdle /\ BacktestIdle
    \/ InitSpiral /\ PointsIdle /\ OrangesIdle /\ MarkovIdle /\ AssignIdle
          /\ NormalizeIdle /\ XlamIdle /\ HmmIdle /\ BacktestIdle
    \/ InitOranges /\ PointsIdle /\ SpiralIdle /\ MarkovIdle /\ AssignIdle
          /\ NormalizeIdle /\ XlamIdle /\ HmmIdle /\ BacktestIdle
    \/ InitMarkov /\ PointsIdle /\ SpiralIdle /\ OrangesIdle /\ AssignIdle
          /\ NormalizeIdle /\ XlamIdle /\ HmmIdle /\ BacktestIdle
    \/ InitAssign /\ PointsIdle /\ SpiralIdle /\ OrangesIdle /\ MarkovIdle
          /\ NormalizeIdle /\ XlamIdle /\ HmmIdle /\ BacktestIdle
    \/ InitNormalize /\ PointsIdle /\ SpiralIdle /\ OrangesIdle /\ MarkovIdle
          /\ AssignIdle /\ XlamIdle /\ HmmIdle /\ BacktestIdle
    \/ InitXlam /\ PointsIdle /\ SpiralIdle /\ OrangesIdle /\ MarkovIdle
          /\ AssignIdle /\ NormalizeIdle /\ HmmIdle /\ BacktestIdle
    \/ InitHmm /\ PointsIdle /\ SpiralIdle /\ OrangesIdle /\ MarkovIdle
          /\ AssignIdle /\ NormalizeIdle /\ XlamIdle /\ BacktestIdle
    \/ InitBacktest /\ PointsIdle /\ SpiralIdle /\ OrangesIdle /\ MarkovIdle
          /\ AssignIdle /\ NormalizeIdle /\ XlamIdle /\ HmmIdle

Next ==
    \/ VisitStep
    \/ VisitReturn
    \/ SpiralWhile
    \/ FillTop
    \/ EndTop
    \/ FillRight
    \/ EndRight
    \/ FillBottom
    \/ EndBottom
    \/ FillLeft
    \/ EndLeft
    \/ OrangesEmptyGuard
    \/ OrangesGather
    \/ OrangesShift
    \/ OrangesFallOff
    \/ CountTransition
    \/ NormalizeRows
    \/ AssignStates
    \/ NormalizeType
    \/ BuildStep
    \/ BuildDone
    \/ InitializeRandom
    \/ ForwardCall
    \/ BackwardCall
    \/ BaumWelchStart
    \/ BaumWelchIteration
    \/ BaumWelchIndexError
    \/ BaumWelchReturn
    \/ BacktestRunStart
    \/ BacktestRunStep
    \/ BacktestRunReturn

Spec == Init /\ [][Next]_vars

\* ================================================================ claims

\* ---- reference: shortest walks on the 8-neighbour grid
\* the cells one move away from p (horizontal, vertical or diagonal)
KingMoves(p) ==
    {<<p[1] + a, p[2] + b>> : a \in -1..1, b \in -1..1} \ {p}

\* breadth-first search inside the bounding box of the two end points, widened
\* by one cell on every side
RECURSIVE KingBfs(_, _, _, _)
KingBfs(seen, target, box, d) ==
    IF target \in seen THEN d
    ELSE KingBfs(seen \cup ((UNION {KingMoves(p) : p \in seen}) \cap box),
                 target, box, d + 1)

KingDist(p, q) ==
    LET box == ((Min(p[1], q[1]) - 1)..(Max(p[1], q[1]) + 1))
                   \X ((Min(p[2], q[2]) - 1)..(Max(p[2], q[2]) + 1))
    IN  KingBfs({p}, q, box, 0)

RECURSIVE RouteLength(_, _)
RouteLength(ps, k) ==
    IF k >= Len(ps) THEN 0
    ELSE KingDist(ps[k], ps[k + 1]) + RouteLength(ps, k + 1)

\* C1: the value minTimeToVisitAllPoints returns is the length of a shortest
\* walk of horizontal, vertical and diagonal unit moves through the points in
\* the order given, and it is 7 for [[1,1],[3,4],[-1,0]].
C1_MinTimeIsShortestRoute ==
    pc = "visit_done" =>
        /\ totalTime = RouteLength(points, 1)
        /\ (points = ExamplePoints => totalTime = 7)

C1_Witness ==
    pc = "visit_done" /\ points = ExamplePoints /\ totalTime = 7

\* ---- spiral
Cells == (0..(n - 1)) \X (0..(n - 1))

CellsHolding(v) == {rc \in Cells : matrix[rc[1]][rc[2]] = v}

\* C2: the returned matrix has n rows of n entries and holds every integer of
\* 1..n*n exactly once.
C2_SpiralIsPermutation ==
    pc = "spiral_done" =>
        /\ DOMAIN matrix = 0..(n - 1)
        /\ \A r \in 0..(n - 1) : DOMAIN matrix[r] = 0..(n - 1)
        /\ \A v \in 1..(n * n) : Cardinality(CellsHolding(v)) = 1

C2_Witness ==
    pc = "spiral_done" /\ n = 4 /\ matrix[1][1] = 13 /\ matrix[2][1] = 16

\* the value a clockwise spiral from the top-left cell puts at (r, c): ring L
\* has side m and starts after the n*n - m*m cells of the outer rings
SpiralRef(r, c) ==
    LET L == Min(Min(r, c), Min(n - 1 - r, n - 1 - c))
        m == n - 2 * L
        start == n * n - m * m + 1
        a == r - L
        b == c - L
    IN  IF a = 0 THEN start + b
        ELSE IF b = m - 1 THEN start + (m - 1) + a
        ELSE IF a = m - 1 THEN start + 2 * (m - 1) + (m - 1 - b)
        ELSE start + 3 * (m - 1) + (m - 1 - a)

CellOf(v) == CHOOSE rc \in Cells : matrix[rc[1]][rc[2]] = v

Adjacent4(p, q) == Abs(p[1] - q[1]) + Abs(p[2] - q[2]) = 1

Spiral3 ==
    [r \in 0..2 |-> [c \in 0..2 |->
        << <<1, 2, 3>>, <<8, 9, 4>>, <<7, 6, 5>> >>[r + 1][c + 1]]]

\* C3: the values run in a clockwise spiral from 1 at the top-left cell (top
\* row left to right, right column downwards, bottom row right to left, left
\* column upwards, then inward), k and k+1 are always in 4-adjacent cells, and
\* for n = 3 the matrix is [[1,2,3],[8,9,4],[7,6,5]].
C3_SpiralIsClockwise ==
    pc = "spiral_done" =>
        /\ matrix[0][0] = 1
        /\ \A rc \in Cells : matrix[rc[1]][rc[2]] = SpiralRef(rc[1], rc[2])
        /\ \A k \in 1..(n * n - 1) : Adjacent4(CellOf(k), CellOf(k + 1))
        /\ (n = 3 => matrix = Spiral3)

C3_Witness ==
    pc = "spiral_done" /\ n = 3 /\ matrix = Spiral3

\* ---- oranges
GridCells == (0..(rows - 1)) \X (0..(cols - 1))

\* the grid one minute later: every fresh orange next to a rotten one rots
RotOneMinute(g) ==
    [r \in 0..(rows - 1) |-> [c \in 0..(cols - 1) |->
        IF /\ g[r][c] = 1
           /\ \E q \in GridCells : Adjacent4(<<r, c>>, q) /\ g[q[1]][q[2]] = 2
          THEN 2 ELSE g[r][c]]]

HasFresh(g) == \E rc \in GridCells : g[rc[1]][rc[2]] = 1

\* the minutes until no cell of g holds a fresh orange, -1 when that never
\* happens
RECURSIVE MinutesFrom(_, _)
MinutesFrom(g, m) ==
    IF ~HasFresh(g) THEN m
    ELSE IF RotOneMinute(g) = g THEN -1
    ELSE MinutesFrom(RotOneMinute(g), m + 1)

\* the cells connected to a rotten orange through 4-adjacent non-empty cells
RECURSIVE ConnectedToRotten(_)
ConnectedToRotten(S) ==
    LET more == {q \in GridCells : /\ grid[q[1]][q[2]] # 0
                                   /\ \E p \in S : Adjacent4(p, q)}
    IN  IF more \subseteq S THEN S ELSE ConnectedToRotten(S \cup more)

SomeFreshCutOff ==
    \E rc \in GridCells :
        /\ grid[rc[1]][rc[2]] = 1
        /\ rc \notin ConnectedToRotten({q \in GridCells : grid[q[1]][q[2]] = 2})

\* C4: on a grid in which every fresh orange eventually rots, orangesRotting
\* returns the number of minutes until no cell holds a fresh orange, and 4
\* for [[2,1,1],[1,1,0],[0,1,1]].
C4_ReturnsMinutes ==
    (pc = "oranges_done" /\ rows > 0 /\ ~SomeFreshCutOff) =>
        /\ ret = Number(MinutesFrom(grid, 0))
        /\ (grid = ExampleGrid => ret = Number(4))

\* C5: when some fresh orange can never rot, orangesRotting returns -1.
C5_ReturnsMinusOneWhenImpossible ==
    (pc = "oranges_done" /\ rows > 0 /\ SomeFreshCutOff) => ret = Number(-1)

\* C6: on an m x n grid without a fresh orange orangesRotting returns 0,
\* whether or not the grid holds rotten oranges.
C6_NoFreshReturnsZero ==
    (pc = "oranges_done" /\ rows > 0 /\ ~HasFresh(grid)) => ret = Number(0)

C6_Witness ==
    /\ pc = "oranges_done" /\ rows > 0 /\ ~HasFresh(grid)
    /\ \E rc \in GridCells : grid[rc[1]][rc[2]] = 2
    /\ ret = Number(0)

\* ---- estimate_transition_matrix
\* exact sum of two floats
FloatAdd(x, y) ==
    IF x.kind = "nan" \/ y.kind = "nan" THEN NaN
    ELSE IF x.kind = "inf" \/ y.kind = "inf" THEN Inf
    ELSE Finite(x.num * y.den + y.num * x.den, x.den * y.den)

RECURSIVE RowSum(_, _)
RowSum(row, m) ==
    IF m < 0 THEN Finite(0, 1) ELSE FloatAdd(row[m], RowSum(row, m - 1))

IsOne(x) == x.kind = "finite" /\ x.num = x.den

\* C7: every row i of the matrix estimate_transition_matrix returns sums
\* to 1, for every state sequence and every num_states.
C7_RowsSumToOne ==
    pc = "markov_done" =>
        \A a \in 0..(num_states - 1) :
            IsOne(RowSum(transition_matrix[a], num_states - 1))

\* ---- assign_states
\* the state the State Modeling text gives a return
DocumentedState(r) ==
    IF r < -100 THEN 0
    ELSE IF r < 0 THEN 1
    ELSE IF r < 100 THEN 2
    ELSE 3

\* C8: with the default thresholds assign_states gives state 0 to r < -1%,
\* state 1 to -1% <= r < 0%, state 2 to 0% <= r < 1% and state 3 to r >= 1%,
\* the three threshold values included.
C8_StatesAsDocumented ==
    pc = "assign_done" =>
        \A j \in 1..Len(Return) : State[j] = DocumentedState(Return[j])

\* ---- normalize_type
\* C9: normalize_type maps every input of the type transformation table to
\* the OpenAI type the table gives for it.
C9_DocumentedTypesNormalized ==
    pc = "normalize_done" =>
        \A e \in DocumentedTypes : param_type = e[1] => normalized = e[2]

C9_Witness ==
    /\ pc = "normalize_done"
    /\ param_type = <<"C", "a", "l", "l", "a", "b", "l", "e", "[", "[", "i", "n", "t", "]", ",", " ", "s", "t", "r", "]">>
    /\ normalized = "string"

\* ---- the openai_data build loop
\* C10: xlam_tool_calls_to_openai wraps exactly one tool call in a
\* one-element list and gives None for none or for two or more, and every
\* record appended to openai_data has an assistant message with exactly one
\* tool call.
C10_SingleToolCallOnly ==
    /\ \A j \in 1..(row_idx - 1) :
           LET calls == data[j].answers
               out == xlam_tool_calls_to_openai(calls)
           IN  /\ Len(calls) = 1 =>
                      out = Some(<<[type |-> "function", function |-> calls[1]]>>)
               /\ Len(calls) # 1 => out = None
    /\ \A j \in 1..Len(openai_data) :
           LET assistant == openai_data[j].messages[2]
           IN  /\ assistant.role = "assistant"
               /\ ~assistant.tool_calls.isNone
               /\ Len(assistant.tool_calls.value) = 1
    /\ Len(openai_data) =
           Cardinality({j \in 1..(row_idx - 1) : Len(data[j].answers) = 1})

C10_Witness ==
    /\ pc = "xlam_done"
    /\ Len(data) = 2
    /\ Len(data[1].answers) = 2
    /\ Len(data[2].answers) = 1
    /\ Len(openai_data) = 1

\* ---- HiddenMarkovModel
SumsToOne(row, S) == IsOne(FSum(row, S))

\* C11: after every iteration of baum_welch_train on at least two
\* observations initial_probs sums to 1 and every row of transition_probs and
\* of emission_probs sums to 1, for every hidden state.
C11_ProbabilitiesSumToOne ==
    (pc \in {"hmm_train", "hmm_ready"} /\ iters_done >= 1) =>
        /\ SumsToOne(initial_probs, HiddenStates)
        /\ \A a \in HiddenStates :
               /\ SumsToOne(transition_probs[a], HiddenStates)
               /\ SumsToOne(emission_probs[a], ObservationBins)

NonNegative(x) == x.kind = "finite" /\ x.num >= 0

ParametersNonNegative ==
    /\ \A a \in HiddenStates : NonNegative(initial_probs[a])
    /\ \A a \in HiddenStates : \A b \in HiddenStates :
           NonNegative(transition_probs[a][b])
    /\ \A a \in HiddenStates : \A l \in ObservationBins :
           NonNegative(emission_probs[a][l])

\* the sum over the hidden states of alpha[t, a] * beta[t, a]
AlphaBeta(t) ==
    FSum([a \in HiddenStates |-> FMul(alpha[t][a], beta[t][a])], HiddenStates)

\* C13: for non-negative parameters and a non-empty observation sequence of
\* length T, the sum over i of alpha[t,i] * beta[t,i] is the same for every
\* t in 0..T-1, and equals the sum of alpha[T-1,i] and the sum of
\* initial_probs[i] * emission_probs[i, obs[0]] * beta[0,i].
C13_ForwardBackwardAgree ==
    (pc = "hmm_ready" /\ alpha # NoArray /\ beta # NoArray
        /\ ParametersNonNegative) =>
        LET T == Len(observations)
            likelihood == FSum(alpha[T - 1], HiddenStates)
        IN  /\ \A t \in 0..(T - 1) : AlphaBeta(t) = likelihood
            /\ likelihood =
                   FSum([a \in HiddenStates |->
                            FMul(FMul(initial_probs[a],
                                      emission_probs[a][observations[1]]),
                                 beta[0][a])],
                        HiddenStates)

C13_Witness ==
    /\ pc = "hmm_ready" /\ alpha # NoArray /\ beta # NoArray
    /\ ParametersNonNegative
    /\ randomized
    /\ observations = <<0, 1, 1>>
    /\ initial_probs[0] # initial_probs[1]
    /\ transition_probs[0] # transition_probs[1]
    /\ emission_probs[0] # emission_probs[1]
    /\ ~IsZero(FSum(alpha[2], HiddenStates))
    /\ AlphaBeta(0) = FSum(alpha[2], HiddenStates)

\* ---- BacktestEngine
\* the capital, the position and the curve after the rows 1 .. m of a run
\* that starts from a capital of 1.0 and a position of 0
RECURSIVE FreshRun(_)
FreshRun(m) ==
    IF m = 0 THEN [capital |-> One, position |-> Zero, curve |-> <<>>]
    ELSE LET before == FreshRun(m - 1)
             after == LoopBody(before.capital, before.position, m)
         IN  [capital |-> after.capital, position |-> after.position,
              curve |-> Append(before.curve, after.capital)]

\* C12: every call of BacktestEngine.run returns an equity curve with exactly
\* len(df) - 1 values, one per row from the second row on, computed from an
\* initial capital of 1.0 and an initial position of 0, also when run is
\* called more than once on the same engine.
C12_RunReturnsOneCurve ==
    (pc = "backtest_ready" /\ run_calls >= 1 /\ Len(df) >= 1) =>
        /\ Len(run_result) = Len(df) - 1
        /\ run_result = FreshRun(Len(df) - 1).curve

====
